---- MODULE Spec2Model ----
(***************************************************************************)
(* Recipe API: the recipe, tag and ingredient resources of                 *)
(* app/recipe/views.py as a state machine.  One action per request         *)
(* handler; the persisted rows are the state, together with the last       *)
(* request served and the response it got.                                 *)
(*                                                                         *)
(* recipe/serializers.py and core/models.py are not among the sources: the *)
(* nested get-or-create with the order of its operations and the field     *)
(* sets of the representations follow the written specification.           *)
(*                                                                         *)
(* Bounds.  Ids are capped (MaxRecipeId, MaxAttrRows per table), names and *)
(* users are drawn from 1..MaxName and 1..NumUsers, nested lists hold at   *)
(* most MaxPayload names.  The payloads of one behaviour write through one *)
(* key only (scope): tags, ingredients or the uploaded image; a payload    *)
(* carrying both nested lists is outside the bounds.  The recipe's scalar  *)
(* fields (title, price, ...) are not modelled.                            *)
(***************************************************************************)
EXTENDS Integers, Sequences, FiniteSets, TLC

\* ------------------------------------------------------------------ bounds
NumUsers == 2
MaxName == 2
MaxRecipeId == 2
MaxAttrRows == 2
MaxPayload == 2

Users == 1..NumUsers
Names == 1..MaxName
RecipeIds == 1..MaxRecipeId
AttrIds == 1..MaxAttrRows

\* The two nested resources, named by the payload key that carries them.
Kinds == {"tags", "ingredients"}

\* A run's client writes through one key of the recipe payloads: a nested
\* list of one kind, or the image of the upload action.
Scopes == Kinds \cup {"image"}

\* ------------------------------------------------------------ status codes
HTTP_200_OK == 200
HTTP_201_CREATED == 201
HTTP_204_NO_CONTENT == 204
HTTP_400_BAD_REQUEST == 400
HTTP_401_UNAUTHORIZED == 401
HTTP_404_NOT_FOUND == 404
HTTP_405_METHOD_NOT_ALLOWED == 405
HTTP_500_INTERNAL_SERVER_ERROR == 500

\* ------------------------------------------------------------------- state
VARIABLES
    recipes,      \* Recipe table: id -> [user, image, tags, ingredients]
    attrs,        \* Tag and Ingredient tables: kind -> (id -> [user, name])
    nextRecipeId, \* auto-increment of the Recipe table
    nextAttrId,   \* auto-increment of the Tag / Ingredient tables, by kind
    request,      \* the last request served
    response,     \* the response it got
    inflight,          \* the recipe write in flight (stepwise specification only)
    scope         \* the writable key the client's payloads carry in this run

db == <<recipes, attrs, nextRecipeId, nextAttrId>>
aux == <<inflight, scope>>
vars == <<recipes, attrs, nextRecipeId, nextAttrId, request, response, inflight, scope>>

\* ----------------------------------------------------------------- helpers
Empty == [x \in {} |-> {}]
Range(s) == {s[i] : i \in DOMAIN s}
Opt(key, S) == {Empty} \cup {(key :> v) : v \in S}
NameLists == UNION {[1..n -> Names] : n \in 0..MaxPayload}
Restrict(f, S) == [x \in S |-> f[x]]

\* The nested list of a payload: absent on create means nothing to attach.
Nested(p, k) == IF k \in DOMAIN p THEN p[k] ELSE <<>>

\* Image payloads of the upload action: a JPEG file, or the text of the test.
NoImage == "null"
ImagePayloads == IF scope = "image" THEN {"jpeg", "notanimage"} ELSE {"notanimage"}

\* Payloads of the recipe write routes: the run's nested key, absent or with a
\* list of up to MaxPayload names.
RecipePayloads == IF scope \in Kinds THEN Opt(scope, NameLists) ELSE {Empty}
AttrPayloads == Opt("name", Names)

\* request.user of a request that carries no valid token.
AnonymousUser == 0

NoRequest == [resource |-> "none", action |-> "none", auth |-> FALSE,
              user |-> AnonymousUser, kind |-> "none", id |-> 0, payload |-> Empty]
NoResponse == [status |-> 0, serializer |-> "none", data |-> <<>>]
Idle == [active |-> FALSE]

\* ------------------------------------------------ authentication, permission
\* authentication_classes = [TokenAuthentication],
\* permission_classes = [IsAuthenticated]: the handler runs only for a request
\* that carries a valid token.  (AllowAny: the variant without the check.)
IsAuthenticated_AllowAny(tok) == TRUE

IsAuthenticated(tok) == tok

\* ---------------------------------------------------------------- ordering
\* order_by on a key, descending: every arrangement of the rows in which the
\* key never increases (rows with equal keys come in either order).  key is
\* the column, as a function of the row id.  (OrderByAsc: the variant without
\* the minus sign.)
OrderByAsc(S, key) ==
    {s \in [1..Cardinality(S) -> S] :
        /\ Range(s) = S
        /\ \A i \in DOMAIN s : \A j \in DOMAIN s : i < j => key[s[i]] <= key[s[j]]}

OrderByDesc(S, key) ==
    {s \in [1..Cardinality(S) -> S] :
        /\ Range(s) = S
        /\ \A i \in DOMAIN s : \A j \in DOMAIN s : i < j => key[s[i]] >= key[s[j]]}

\* ---------------------------------------------------------------- querysets
\* RecipeViewSet.get_queryset: filter(user=request.user).order_by('-id')
\* (all_users: the variant without the filter.)
RecipeOwned(u) == {id \in DOMAIN recipes : recipes[id].user = u}
RecipeIdColumn == [id \in DOMAIN recipes |-> id]
Recipe_get_queryset_all_users(u) == OrderByDesc(DOMAIN recipes, RecipeIdColumn)

Recipe_get_queryset(u) == OrderByDesc(RecipeOwned(u), RecipeIdColumn)

\* BaseRecipeAttrViewSet.get_queryset: filter(user=request.user).order_by('-name')
AttrOwned(k, u) == {id \in DOMAIN attrs[k] : attrs[k][id].user = u}
AttrNameColumn(k) == [id \in DOMAIN attrs[k] |-> attrs[k][id].name]
Attr_get_queryset(k, u) == OrderByDesc(AttrOwned(k, u), AttrNameColumn(k))

\* get_object: the row of the queryset with the addressed id, or Http404.
Recipe_get_object_found(u, id) == \E q \in Recipe_get_queryset(u) : id \in Range(q)
Attr_get_object_found(k, u, id) == \E q \in Attr_get_queryset(k, u) : id \in Range(q)

\* --------------------------------------------------------------- serializers
\* RecipeViewSet.get_serializer_class (no_list: the variant without the branch
\* for the list action.)
Recipe_get_serializer_class_no_list(action) ==
    IF action = "upload_image" THEN "RecipeImageSerializer"
    ELSE "RecipeDetailSerializer"

Recipe_get_serializer_class(action) ==
    IF action = "list" THEN "RecipeSerializer"
    ELSE IF action = "upload_image" THEN "RecipeImageSerializer"
    ELSE "RecipeDetailSerializer"

\* TagViewSet / IngredientViewSet serializer_class
Attr_serializer_class(k) ==
    IF k = "tags" THEN "TagSerializer" ELSE "IngredientSerializer"

\* The fields of each representation.
Fields(serializer) ==
    CASE serializer = "RecipeSerializer" ->
             {"id", "title", "time_minutes", "price", "link", "tags", "ingredients"}
      [] serializer = "RecipeDetailSerializer" ->
             {"id", "title", "time_minutes", "price", "link", "tags", "ingredients",
              "description"}
      [] serializer = "RecipeImageSerializer" -> {"id", "image"}
      [] serializer \in {"TagSerializer", "IngredientSerializer"} -> {"id", "name"}
      [] OTHER -> {}

Req(resource, action, tok, u, k, id, p) ==
    [resource |-> resource, action |-> action, auth |-> tok, user |-> u,
     kind |-> k, id |-> id, payload |-> p]
Resp(status, serializer, data) ==
    [status |-> status, serializer |-> serializer, data |-> data]

\* ------------------------------------------------------------------- Init
Init ==
    /\ recipes = Empty
    /\ attrs = [k \in Kinds |-> Empty]
    /\ nextRecipeId = 1
    /\ nextAttrId = [k \in Kinds |-> 1]
    /\ request = NoRequest
    /\ response = NoResponse
    /\ inflight = Idle
    /\ scope \in Scopes

\* ------------------------------------------------------- nested resolution
\* The lookup half of get_or_create(user=auth_user, name=n): the rows of the
\* caller with exactly that name.  (any_user: the variant that matches on the
\* name alone.)
Lookup_any_user(rows, u, n) == {id \in DOMAIN rows : rows[id].name = n}

Lookup(rows, u, n) == {id \in DOMAIN rows : rows[id] = [user |-> u, name |-> n]}

\* Resolving a nested list, name by name, against one table: a name the caller
\* owns reuses a row, any other name creates a row owned by the caller; each
\* resolved row is added to the recipe.  st = [rows, next, attached]; the result
\* is the set of outcomes (a name matching several rows may reuse any of them).
RECURSIVE GetOrCreate(_, _, _, _)
GetOrCreate(st, u, names, i) ==
    IF i > Len(names) THEN {st}
    ELSE LET n == names[i]
             found == Lookup(st.rows, u, n)
         IN  IF found # {}
             THEN UNION {GetOrCreate([st EXCEPT !.attached = @ \cup {id}],
                                     u, names, i + 1) : id \in found}
             ELSE GetOrCreate([rows |-> st.rows @@ (st.next :> [user |-> u, name |-> n]),
                               next |-> st.next + 1,
                               attached |-> st.attached \cup {st.next}],
                              u, names, i + 1)

\* Outcomes of resolving the payload's list of kind k for caller u.
Resolve(k, u, p) ==
    GetOrCreate([rows |-> attrs[k], next |-> nextAttrId[k], attached |-> {}],
                u, Nested(p, k), 1)

\* The model's bound on the rows each table ever holds.
WithinAttrBound(t, g) == t.next - 1 <= MaxAttrRows /\ g.next - 1 <= MaxAttrRows

\* On update, a list present in the payload replaces the association set
\* (clear, then attach the resolved rows); an absent list leaves it alone.
\* (no_clear: the variant that attaches without clearing.)
UpdatedLinks_no_clear(old, resolved, present) ==
    IF present THEN old \cup resolved ELSE old

UpdatedLinks(old, resolved, present) == IF present THEN resolved ELSE old

\* Required fields: a full update of a tag or ingredient must carry the name.
AttrValid(p, partial) == partial \/ "name" \in DOMAIN p

\* RecipeImageSerializer.is_valid: the payload is an image file.
ImageValid(img) == img = "jpeg"

\* RecipeViewSet.perform_create: serializer.save(user=self.request.user)
\* (first_user: the variant that saves for a fixed user.)
perform_create_first_user(u) == 1

perform_create_user(u) == u

\* RecipeViewSet.upload_image: `if serializer.is_valid():` decides the save.
\* (unchecked: the variant that saves whatever is_valid says.)
upload_image_saves_unchecked(valid) == TRUE

upload_image_saves(valid) == valid

RecipeWrites == {"create", "update", "partial_update"}
ActionName(partial) == IF partial THEN "partial_update" ELSE "update"

\* --------------------------------------------------- 401 before any handler
\* APIView.initial runs the permission check before the handler is looked up.
Unauthorized(resource, action, tok, k) ==
    /\ ~IsAuthenticated(tok)
    /\ request' = Req(resource, action, tok, AnonymousUser, k, 0, Empty)
    /\ response' = Resp(HTTP_401_UNAUTHORIZED, "none", <<>>)
    /\ UNCHANGED <<db, aux>>

\* ------------------------------------------------------------ recipe: list
RecipeList(tok, u) ==
    /\ IsAuthenticated(tok)
    /\ \E q \in Recipe_get_queryset(u) :
          response' = Resp(HTTP_200_OK, Recipe_get_serializer_class("list"), q)
    /\ request' = Req("recipe", "list", tok, u, "none", 0, Empty)
    /\ UNCHANGED <<db, aux>>

\* ---------------------------------------------------------- recipe: create
\* CreateModelMixin.create -> perform_create -> serializer.save(user=...):
\* the recipe row, then the nested tags, then the nested ingredients.
RecipeCreate(tok, u, p) ==
    /\ IsAuthenticated(tok)
    /\ nextRecipeId <= MaxRecipeId
    /\ request' = Req("recipe", "create", tok, u, "none", 0, p)
    /\ \E t \in Resolve("tags", u, p), g \in Resolve("ingredients", u, p) :
          /\ WithinAttrBound(t, g)
          /\ recipes' = recipes @@
                (nextRecipeId :> [user |-> perform_create_user(u),
                                  image |-> NoImage,
                                  tags |-> t.attached,
                                  ingredients |-> g.attached])
          /\ attrs' = [tags |-> t.rows, ingredients |-> g.rows]
          /\ nextAttrId' = [tags |-> t.next, ingredients |-> g.next]
    /\ nextRecipeId' = nextRecipeId + 1
    /\ response' = Resp(HTTP_201_CREATED, Recipe_get_serializer_class("create"),
                        <<nextRecipeId>>)
    /\ UNCHANGED aux

\* -------------------------------------------------------- recipe: retrieve
RecipeRetrieve(tok, u, id) ==
    /\ IsAuthenticated(tok)
    /\ request' = Req("recipe", "retrieve", tok, u, "none", id, Empty)
    /\ UNCHANGED <<db, aux>>
    /\ IF ~Recipe_get_object_found(u, id)
       THEN response' = Resp(HTTP_404_NOT_FOUND, "none", <<>>)
       ELSE response' = Resp(HTTP_200_OK,
                             Recipe_get_serializer_class("retrieve"), <<id>>)

\* ------------------------------------------ recipe: update, partial_update
RecipeUpdate(tok, u, id, partial) ==
    /\ IsAuthenticated(tok)
    /\ UNCHANGED <<aux, nextRecipeId>>
    /\ IF ~Recipe_get_object_found(u, id)
       THEN /\ request' = Req("recipe", ActionName(partial), tok, u, "none", id, Empty)
            /\ response' = Resp(HTTP_404_NOT_FOUND, "none", <<>>)
            /\ UNCHANGED <<recipes, attrs, nextAttrId>>
       ELSE /\ \E p \in RecipePayloads :
                  /\ request' = Req("recipe", ActionName(partial), tok, u, "none", id, p)
                  /\ \E t \in Resolve("tags", u, p), g \in Resolve("ingredients", u, p) :
                        /\ WithinAttrBound(t, g)
                        /\ recipes' = [recipes EXCEPT ![id] =
                              [user |-> @.user,
                               image |-> @.image,
                               tags |-> UpdatedLinks(@.tags, t.attached,
                                                     "tags" \in DOMAIN p),
                               ingredients |-> UpdatedLinks(@.ingredients, g.attached,
                                                            "ingredients" \in DOMAIN p)]]
                        /\ attrs' = [tags |-> t.rows, ingredients |-> g.rows]
                        /\ nextAttrId' = [tags |-> t.next, ingredients |-> g.next]
            /\ response' = Resp(HTTP_200_OK,
                                Recipe_get_serializer_class(ActionName(partial)), <<id>>)

\* --------------------------------------------------------- recipe: destroy
RecipeDestroy(tok, u, id) ==
    /\ IsAuthenticated(tok)
    /\ request' = Req("recipe", "destroy", tok, u, "none", id, Empty)
    /\ UNCHANGED <<aux, attrs, nextRecipeId, nextAttrId>>
    /\ IF ~Recipe_get_object_found(u, id)
       THEN /\ response' = Resp(HTTP_404_NOT_FOUND, "none", <<>>)
            /\ UNCHANGED recipes
       ELSE /\ recipes' = Restrict(recipes, DOMAIN recipes \ {id})
            /\ response' = Resp(HTTP_204_NO_CONTENT, "none", <<>>)

\* ---------------------------------------------------- recipe: upload_image
RecipeUploadImage(tok, u, id) ==
    /\ IsAuthenticated(tok)
    /\ UNCHANGED <<aux, attrs, nextRecipeId, nextAttrId>>
    /\ IF ~Recipe_get_object_found(u, id)
       THEN /\ request' = Req("recipe", "upload_image", tok, u, "none", id, Empty)
            /\ response' = Resp(HTTP_404_NOT_FOUND, "none", <<>>)
            /\ UNCHANGED recipes
       ELSE \E img \in ImagePayloads :
               /\ request' = Req("recipe", "upload_image", tok, u, "none", id,
                                 [image |-> img])
               /\ IF upload_image_saves(ImageValid(img))
                  THEN /\ recipes' = [recipes EXCEPT ![id].image = img]
                       /\ response' = Resp(HTTP_200_OK,
                                           Recipe_get_serializer_class("upload_image"),
                                           <<id>>)
                  ELSE /\ response' = Resp(HTTP_400_BAD_REQUEST, "none", <<>>)
                       /\ UNCHANGED recipes

\* ------------------------------------------------- tag / ingredient: list
AttrList(k, tok, u) ==
    /\ IsAuthenticated(tok)
    /\ \E q \in Attr_get_queryset(k, u) :
          response' = Resp(HTTP_200_OK, Attr_serializer_class(k), q)
    /\ request' = Req("attr", "list", tok, u, k, 0, Empty)
    /\ UNCHANGED <<db, aux>>

\* ------------------------------- tag / ingredient: update, partial_update
AttrUpdate(k, tok, u, id, partial) ==
    /\ IsAuthenticated(tok)
    /\ UNCHANGED <<aux, recipes, nextRecipeId, nextAttrId>>
    /\ IF ~Attr_get_object_found(k, u, id)
       THEN /\ request' = Req("attr", ActionName(partial), tok, u, k, id, Empty)
            /\ response' = Resp(HTTP_404_NOT_FOUND, "none", <<>>)
            /\ UNCHANGED attrs
       ELSE \E p \in AttrPayloads :
               /\ request' = Req("attr", ActionName(partial), tok, u, k, id, p)
               /\ IF ~AttrValid(p, partial)
                  THEN /\ response' = Resp(HTTP_400_BAD_REQUEST, "none", <<>>)
                       /\ UNCHANGED attrs
                  ELSE /\ attrs' = [attrs EXCEPT ![k][id].name =
                                       IF "name" \in DOMAIN p THEN p.name ELSE @]
                       /\ response' = Resp(HTTP_200_OK, Attr_serializer_class(k), <<id>>)

\* ---------------------------------------------- tag / ingredient: destroy
\* Deleting the row deletes its rows of the many-to-many table with it.
AttrDestroy(k, tok, u, id) ==
    /\ IsAuthenticated(tok)
    /\ request' = Req("attr", "destroy", tok, u, k, id, Empty)
    /\ UNCHANGED <<aux, nextRecipeId, nextAttrId>>
    /\ IF ~Attr_get_object_found(k, u, id)
       THEN /\ response' = Resp(HTTP_404_NOT_FOUND, "none", <<>>)
            /\ UNCHANGED <<recipes, attrs>>
       ELSE /\ attrs' = [attrs EXCEPT ![k] = Restrict(@, DOMAIN @ \ {id})]
            /\ recipes' = [r \in DOMAIN recipes |->
                              [recipes[r] EXCEPT ![k] = @ \ {id}]]
            /\ response' = Resp(HTTP_204_NO_CONTENT, "none", <<>>)

\* ------------------------------ tag / ingredient: routes with no handler
\* The viewset mixes in destroy, update and list only: a POST to the list
\* route or a GET of the detail route finds no handler.  (with_create: the
\* variant that mixes in create as well.)
Attr_unhandled_with_create(k, action, u) ==
    IF action = "create" /\ nextAttrId[k] <= MaxAttrRows
    THEN [attrs EXCEPT ![k] = @ @@ (nextAttrId[k] :> [user |-> u, name |-> 1])]
    ELSE attrs

Attr_unhandled(k, action, u) == attrs

AttrNoHandler(k, action, tok, u, id) ==
    /\ IsAuthenticated(tok)
    /\ request' = Req("attr", action, tok, u, k, id, Empty)
    /\ response' = Resp(HTTP_405_METHOD_NOT_ALLOWED, "none", <<>>)
    /\ attrs' = Attr_unhandled(k, action, u)
    /\ UNCHANGED <<aux, recipes, nextRecipeId, nextAttrId>>

\* ------------------------------------------------------------------- Next
Routes ==
    {<<"recipe", a, "none">> :
        a \in {"list", "create", "retrieve", "update", "partial_update",
               "destroy", "upload_image"}}
    \cup {<<"attr", a, k>> :
        a \in {"list", "create", "retrieve", "update", "partial_update", "destroy"},
        k \in Kinds}

Next ==
    \/ \E r \in Routes, tok \in BOOLEAN : Unauthorized(r[1], r[2], tok, r[3])
    \/ \E tok \in BOOLEAN, u \in Users : RecipeList(tok, u)
    \/ \E tok \in BOOLEAN, u \in Users, p \in RecipePayloads : RecipeCreate(tok, u, p)
    \/ \E tok \in BOOLEAN, u \in Users, id \in RecipeIds : RecipeRetrieve(tok, u, id)
    \/ \E tok \in BOOLEAN, u \in Users, id \in RecipeIds, partial \in BOOLEAN :
          RecipeUpdate(tok, u, id, partial)
    \/ \E tok \in BOOLEAN, u \in Users, id \in RecipeIds : RecipeDestroy(tok, u, id)
    \/ \E tok \in BOOLEAN, u \in Users, id \in RecipeIds : RecipeUploadImage(tok, u, id)
    \/ \E k \in Kinds, tok \in BOOLEAN, u \in Users : AttrList(k, tok, u)
    \/ \E k \in Kinds, tok \in BOOLEAN, u \in Users, id \in AttrIds, partial \in BOOLEAN :
          AttrUpdate(k, tok, u, id, partial)
    \/ \E k \in Kinds, tok \in BOOLEAN, u \in Users, id \in AttrIds :
          AttrDestroy(k, tok, u, id)
    \/ \E k \in Kinds, tok \in BOOLEAN, u \in Users :
          AttrNoHandler(k, "create", tok, u, 0)
    \/ \E k \in Kinds, tok \in BOOLEAN, u \in Users, id \in AttrIds :
          AttrNoHandler(k, "retrieve", tok, u, id)

Spec == Init /\ [][Next]_vars

\* ===================================================== a recipe write, stepwise
\* The same recipe write taken one persistence operation at a time.
\* perform_create calls serializer.save(user=...) and nothing in the viewset
\* opens a transaction (no transaction.atomic around the save): each
\* operation is committed to the stored tables as it is made.  Other requests
\* (the list actions) are served meanwhile from the stored tables.
Tables == [recipes |-> recipes, attrs |-> attrs,
           nextRecipeId |-> nextRecipeId, nextAttrId |-> nextAttrId]

\* The operations of a recipe write, in the order the write performs them: the
\* recipe row (create) or the clearing of each list present (update), then one
\* get-or-create-and-attach per nested name, tags first.
NestedOps(p, k) == [i \in 1..Len(Nested(p, k)) |-> [op |-> "attach", kind |-> k, name |-> Nested(p, k)[i]]]
ClearOps(p, k) == IF k \in DOMAIN p THEN <<[op |-> "clear", kind |-> k, name |-> 0]>> ELSE <<>>
WriteOps(action, p) ==
    IF action = "create"
    THEN <<[op |-> "insert", kind |-> "none", name |-> 0]>>
         \o NestedOps(p, "tags") \o NestedOps(p, "ingredients")
    ELSE ClearOps(p, "tags") \o NestedOps(p, "tags")
         \o ClearOps(p, "ingredients") \o NestedOps(p, "ingredients")

\* The outcomes of one operation on the tables w, for the recipe rid of
\* caller u.
ApplyOp(w, o, u, rid) ==
    CASE o.op = "insert" ->
            {[w EXCEPT !.recipes = @ @@ (rid :> [user |-> perform_create_user(u),
                                                 image |-> NoImage,
                                                 tags |-> {}, ingredients |-> {}]),
                       !.nextRecipeId = @ + 1]}
      [] o.op = "clear" ->
            {[w EXCEPT !.recipes[rid][o.kind] = {}]}
      [] OTHER ->
            {[w EXCEPT !.attrs[o.kind] = st.rows,
                       !.nextAttrId[o.kind] = st.next,
                       !.recipes[rid][o.kind] = st.attached] :
                st \in GetOrCreate([rows |-> w.attrs[o.kind],
                                    next |-> w.nextAttrId[o.kind],
                                    attached |-> w.recipes[rid][o.kind]],
                                   u, <<o.name>>, 1)}

Store(w) ==
    /\ recipes' = w.recipes
    /\ attrs' = w.attrs
    /\ nextRecipeId' = w.nextRecipeId
    /\ nextAttrId' = w.nextAttrId

\* The request arrives: get_object has found the recipe (update), no
\* operation has been made yet.
WriteBegin(u, action, id, p) ==
    /\ ~inflight.active
    /\ IF action = "create"
       THEN nextRecipeId <= MaxRecipeId /\ id = nextRecipeId
       ELSE Recipe_get_object_found(u, id)
    /\ inflight' = [active |-> TRUE, user |-> u, action |-> action, id |-> id,
                    payload |-> p, todo |-> WriteOps(action, p),
                    before |-> Tables]
    /\ request' = Req("recipe", action, TRUE, u, "none",
                      IF action = "create" THEN 0 ELSE id, p)
    /\ UNCHANGED <<db, response, scope>>

\* The next operation of the write, stored as it is made.
WriteStep ==
    /\ inflight.active
    /\ inflight.todo # <<>>
    /\ \E w \in ApplyOp(Tables, Head(inflight.todo), inflight.user, inflight.id) :
          /\ w.nextAttrId["tags"] - 1 <= MaxAttrRows
          /\ w.nextAttrId["ingredients"] - 1 <= MaxAttrRows
          /\ Store(w)
    /\ inflight' = [inflight EXCEPT !.todo = Tail(@)]
    /\ UNCHANGED <<request, response, scope>>

\* An operation raises after earlier ones have written: the failure aborts
\* the request, which is answered with an error; what the earlier operations
\* stored is stored.
WriteFail ==
    /\ inflight.active
    /\ inflight.todo # <<>>
    /\ Tables # inflight.before
    /\ inflight' = Idle
    /\ request' = Req("recipe", inflight.action, TRUE, inflight.user, "none",
                      IF inflight.action = "create" THEN 0 ELSE inflight.id,
                      inflight.payload)
    /\ response' = Resp(HTTP_500_INTERNAL_SERVER_ERROR, "none", <<>>)
    /\ UNCHANGED <<db, scope>>

\* Every operation made: the response is sent.
WriteRespond ==
    /\ inflight.active
    /\ inflight.todo = <<>>
    /\ inflight' = Idle
    /\ request' = Req("recipe", inflight.action, TRUE, inflight.user, "none",
                      IF inflight.action = "create" THEN 0 ELSE inflight.id,
                      inflight.payload)
    /\ response' = Resp(IF inflight.action = "create" THEN HTTP_201_CREATED ELSE HTTP_200_OK,
                        Recipe_get_serializer_class(inflight.action), <<inflight.id>>)
    /\ UNCHANGED <<db, scope>>

NextStepwise ==
    \/ \E u \in Users, a \in RecipeWrites, id \in RecipeIds, p \in RecipePayloads :
          WriteBegin(u, a, id, p)
    \/ WriteStep
    \/ WriteFail
    \/ WriteRespond
    \/ \E u \in Users : RecipeList(TRUE, u)
    \/ \E k \in Kinds, u \in Users : AttrList(k, TRUE, u)

SpecStepwise == Init /\ [][NextStepwise]_vars

\* ================================================================== claims
Ok(status) == status \in {HTTP_200_OK, HTTP_201_CREATED}
RecipeDetailActions == {"retrieve", "update", "partial_update", "destroy", "upload_image"}
AttrDetailActions == {"retrieve", "update", "partial_update", "destroy"}

\* The owner, after the step, of a row a response shows.
ShownOwner(res, k, id) ==
    IF res = "recipe" THEN recipes'[id].user ELSE attrs'[k][id].user

\* The request of the step addresses, by id, a row another user owns.
AddressesForeignRow ==
    \/ /\ request'.resource = "recipe"
       /\ request'.action \in RecipeDetailActions
       /\ request'.id \in DOMAIN recipes
       /\ recipes[request'.id].user # request'.user
    \/ /\ request'.resource = "attr"
       /\ request'.action \in AttrDetailActions
       /\ request'.id \in DOMAIN attrs[request'.kind]
       /\ attrs[request'.kind][request'.id].user # request'.user

\* What the step shows the caller, and what it stores for the caller.
OwnRowsOnly ==
    /\ Ok(response'.status) =>
          \A i \in DOMAIN response'.data :
             ShownOwner(request'.resource, request'.kind, response'.data[i])
                = request'.user
    /\ (request'.resource = "recipe" /\ request'.action = "create") =>
          recipes'[response'.data[1]].user = request'.user

\* The routes of the tag and ingredient detail view that have no handler.
AttrRetrieve == request'.resource = "attr" /\ request'.action = "retrieve"

\* C1 as stated: every row a response shows the caller is the caller's own (a
\* created recipe is stored with the caller as owner), and every request that
\* addresses another user's recipe, tag or ingredient by id (retrieve, update,
\* partial update, delete, upload-image) is answered 404 and changes nothing.
C1_AsStated ==
    [][request'.auth =>
          /\ OwnRowsOnly
          /\ AddressesForeignRow =>
                (response'.status = HTTP_404_NOT_FOUND /\ db' = db)]_vars

IsolationStep ==
    request'.auth =>
        /\ OwnRowsOnly
        /\ AddressesForeignRow =>
              /\ db' = db
              /\ response'.status = IF AttrRetrieve THEN HTTP_405_METHOD_NOT_ALLOWED
                                    ELSE HTTP_404_NOT_FOUND
        /\ AttrRetrieve => (response'.status = HTTP_405_METHOD_NOT_ALLOWED /\ db' = db)

\* C1, amended: every row a response shows the caller is the caller's own (a
\* created recipe is stored with the caller as owner), and a request that
\* addresses another user's recipe, tag or ingredient by id is answered 404
\* and changes nothing, except the GET of a tag or ingredient by id, which has
\* no handler: it is answered 405 for every caller, the owner included, and
\* changes nothing.
C1_Isolation == [][IsolationStep]_vars

\* A partial update of another user's recipe, answered 404, the recipe keeping
\* its tags.
C1_Witness ==
    /\ request.auth
    /\ request.resource = "recipe"
    /\ request.action = "partial_update"
    /\ request.id \in DOMAIN recipes
    /\ recipes[request.id].user # request.user
    /\ recipes[request.id].tags # {}
    /\ response.status = HTTP_404_NOT_FOUND

\* C2: a request without a valid token is answered 401 on every route and
\* leaves the persisted recipes, tags and ingredients as they were.
C2_Unauthenticated ==
    [][~request'.auth => (response'.status = HTTP_401_UNAUTHORIZED /\ db' = db)]_vars

C2_Witness ==
    /\ ~request.auth
    /\ request.resource = "recipe"
    /\ request.action = "destroy"
    /\ response.status = HTTP_401_UNAUTHORIZED
    /\ recipes # Empty

\* C3: every tag and ingredient attached to a recipe is a stored row owned by
\* the recipe's owner.
C3_SameOwner ==
    \A r \in DOMAIN recipes : \A k \in Kinds : \A id \in recipes[r][k] :
        /\ id \in DOMAIN attrs[k]
        /\ attrs[k][id].user = recipes[r].user

\* Two users hold recipes with a like-named nested row each, the second made by
\* the request just served.
C3_Witness ==
    /\ request.resource = "recipe"
    /\ request.action \in RecipeWrites
    /\ Ok(response.status)
    /\ \E k \in Kinds : \E r1 \in DOMAIN recipes : \E r2 \in DOMAIN recipes :
          /\ r2 = response.data[1]
          /\ recipes[r1].user # recipes[r2].user
          /\ \E a \in recipes[r1][k] : \E b \in recipes[r2][k] :
                attrs[k][a].name = attrs[k][b].name

\* The names the caller owned in table k before the step.
OwnedBefore(k, u, names) ==
    {n \in names : \E id \in DOMAIN attrs[k] : attrs[k][id] = [user |-> u, name |-> n]}

SuccessfulWrite ==
    /\ request'.resource = "recipe"
    /\ request'.action \in RecipeWrites
    /\ Ok(response'.status)

GetOrCreateStep ==
    SuccessfulWrite =>
        \A k \in Kinds :
            LET u == request'.user
                names == Range(Nested(request'.payload, k))
                fresh == names \ OwnedBefore(k, u, names)
                new == DOMAIN attrs'[k] \ DOMAIN attrs[k]
                links == recipes'[response'.data[1]][k]
            IN  /\ Cardinality(new) = Cardinality(fresh)
                /\ \A id \in new : attrs'[k][id].user = u /\ attrs'[k][id].name \in fresh
                /\ \A id \in DOMAIN attrs[k] :
                      id \in DOMAIN attrs'[k] /\ attrs'[k][id] = attrs[k][id]
                /\ \A n \in names :
                      \E id \in links : attrs'[k][id] = [user |-> u, name |-> n]

\* C4: a recipe write resolves each nested name by get-or-create scoped to the
\* caller: the new rows are one per distinct payload name the caller did not
\* own, all owned by the caller; existing rows are reused untouched; every
\* payload name is attached to the recipe.
C4_GetOrCreate == [][GetOrCreateStep]_vars

\* A create whose list names two rows, one of them already attached to an
\* older recipe of the caller (reused) and one not.
C4_Witness ==
    /\ request.resource = "recipe"
    /\ request.action = "create"
    /\ response.status = HTTP_201_CREATED
    /\ \E k \in Kinds : \E r \in DOMAIN recipes :
          LET new == response.data[1]
          IN  /\ r # new
              /\ k \in DOMAIN request.payload
              /\ Cardinality(Range(request.payload[k])) = MaxPayload
              /\ Cardinality(recipes[new][k]) = MaxPayload
              /\ recipes[r][k] # {}
              /\ recipes[r][k] \subseteq recipes[new][k]
              /\ recipes[r][k] # recipes[new][k]

ReplaceStep ==
    (SuccessfulWrite /\ request'.action # "create") =>
        \A k \in DOMAIN request'.payload :
            LET u == request'.user
                id == request'.id
                names == Range(request'.payload[k])
                links == recipes'[id][k]
            IN  /\ \A x \in links : attrs'[k][x].user = u /\ attrs'[k][x].name \in names
                /\ \A n \in names : \E x \in links : attrs'[k][x].name = n
                /\ names = {} => links = {}
                /\ \A x \in recipes[id][k] : attrs[k][x].name \notin names => x \notin links
                /\ DOMAIN attrs[k] \subseteq DOMAIN attrs'[k]
                /\ id \in DOMAIN recipes'

\* C5: an update whose payload carries a nested list leaves the recipe with
\* exactly the rows resolved from the list (rows of the caller, every one named
\* in the list, every name of the list among them): rows attached before
\* and not named are detached, an empty list leaves none, and the detached
\* rows and the recipe are still stored.
C5_Replace == [][ReplaceStep]_vars

\* An update with an empty list served, the recipe bare, and a row of the
\* owner still stored, made by the one recipe ever created.
C5_Witness ==
    /\ request.resource = "recipe"
    /\ request.action = "partial_update"
    /\ response.status = HTTP_200_OK
    /\ nextRecipeId = 2
    /\ \E k \in DOMAIN request.payload :
          /\ request.payload[k] = <<>>
          /\ recipes[request.id][k] = {}
          /\ \E x \in DOMAIN attrs[k] : attrs[k][x].user = request.user

UploadStep ==
    (/\ request'.auth
     /\ request'.resource = "recipe"
     /\ request'.action = "upload_image"
     /\ request'.id \in DOMAIN recipes
     /\ recipes[request'.id].user = request'.user) =>
        LET id == request'.id
            img == request'.payload.image
        IN  IF img = "jpeg"
            THEN /\ response' = Resp(HTTP_200_OK, "RecipeImageSerializer", <<id>>)
                 /\ "image" \in Fields(response'.serializer)
                 /\ recipes' = [recipes EXCEPT ![id].image = img]
                 /\ <<attrs, nextRecipeId, nextAttrId>>' = <<attrs, nextRecipeId, nextAttrId>>
            ELSE /\ response'.status = HTTP_400_BAD_REQUEST
                 /\ db' = db

\* C6: an upload to the caller's own recipe with a payload that is no image is
\* answered 400 and changes nothing; a valid image is saved on the recipe and
\* answered 200 with the image representation.
C6_UploadImage == [][UploadStep]_vars

\* A rejected upload to a recipe that keeps the image it had.
C6_Witness ==
    /\ request.action = "upload_image"
    /\ response.status = HTTP_400_BAD_REQUEST
    /\ request.payload.image = "notanimage"
    /\ recipes[request.id].image = "jpeg"

GrowthStep ==
    /\ (\E k \in Kinds : ~(DOMAIN attrs'[k] \subseteq DOMAIN attrs[k])) =>
          (request'.resource = "recipe" /\ request'.action \in {"create", "update", "partial_update"})
    /\ (request'.resource = "attr" /\ request'.action = "create") => db' = db

\* C7: the tag and ingredient tables gain rows only in a recipe create or
\* update; a POST to the tag or ingredient list route creates nothing.
C7_NoDirectCreate == [][GrowthStep]_vars

C7_Witness ==
    /\ request.auth
    /\ request.resource = "attr"
    /\ request.action = "create"
    /\ response.status = HTTP_405_METHOD_NOT_ALLOWED
    /\ attrs[request.kind] # Empty

RecipeBody ==
    request.resource = "recipe" /\ Ok(response.status)

\* C8 as stated: list and create answer with the summary representation,
\* retrieve and update with the detail one, upload-image with neither.
C8_AsStated ==
    RecipeBody =>
        /\ request.action \in {"list", "create"} =>
              (response.serializer = "RecipeSerializer"
               /\ "description" \notin Fields(response.serializer))
        /\ request.action \in {"retrieve", "update", "partial_update"} =>
              (response.serializer = "RecipeDetailSerializer"
               /\ "description" \in Fields(response.serializer))
        /\ request.action = "upload_image" =>
              response.serializer \notin {"RecipeSerializer", "RecipeDetailSerializer"}

\* C8, amended: only list answers with the summary representation (no
\* description); create, retrieve, update and partial update answer with the
\* detail representation (with description); upload-image with neither.
C8_Representation ==
    RecipeBody =>
        /\ request.action = "list" =>
              (response.serializer = "RecipeSerializer"
               /\ "description" \notin Fields(response.serializer))
        /\ request.action \in {"create", "retrieve", "update", "partial_update"} =>
              (response.serializer = "RecipeDetailSerializer"
               /\ "description" \in Fields(response.serializer))
        /\ request.action = "upload_image" =>
              response.serializer \notin {"RecipeSerializer", "RecipeDetailSerializer"}

C8_Witness ==
    /\ request.resource = "recipe"
    /\ request.action = "create"
    /\ response.status = HTTP_201_CREATED
    /\ response.serializer = "RecipeDetailSerializer"

\* The column a list is ordered on, for the rows the response shows.
ListColumn ==
    IF request.resource = "recipe" THEN [id \in DOMAIN recipes |-> id]
    ELSE [id \in DOMAIN attrs[request.kind] |-> attrs[request.kind][id].name]
ListOwned ==
    IF request.resource = "recipe"
    THEN {id \in DOMAIN recipes : recipes[id].user = request.user}
    ELSE {id \in DOMAIN attrs[request.kind] : attrs[request.kind][id].user = request.user}

\* C9: a list response holds exactly the caller's rows, each once, recipes in
\* descending order of id, tags and ingredients in descending order of name.
C9_ListOrder ==
    (request.action = "list" /\ response.status = HTTP_200_OK) =>
        LET d == response.data
        IN  /\ Range(d) = ListOwned
            /\ Len(d) = Cardinality(ListOwned)
            /\ \A i \in DOMAIN d : \A j \in DOMAIN d :
                  i < j => IF request.resource = "recipe"
                           THEN ListColumn[d[i]] > ListColumn[d[j]]
                           ELSE ListColumn[d[i]] >= ListColumn[d[j]]

\* A tag or ingredient list of two rows whose order by name is not their order
\* of creation.
C9_Witness ==
    /\ request.resource = "attr"
    /\ request.action = "list"
    /\ response.status = HTTP_200_OK
    /\ Len(response.data) = 2
    /\ response.data[1] < response.data[2]
    /\ ListColumn[response.data[1]] > ListColumn[response.data[2]]

\* The rows of table k (or the recipes) that user u owns in the tables t.
OwnedIn(t, res, k, u) ==
    IF res = "recipe" THEN {id \in DOMAIN t.recipes : t.recipes[id].user = u}
    ELSE {id \in DOMAIN t.attrs[k] : t.attrs[k][id].user = u}

\* The tables a write ends with, from the tables w with the operations todo
\* left to make.
RECURSIVE Finish(_, _, _, _)
Finish(w, todo, u, rid) ==
    IF todo = <<>> THEN {w}
    ELSE UNION {Finish(x, Tail(todo), u, rid) : x \in ApplyOp(w, Head(todo), u, rid)}

\* The stored tables hold part of the writes of the request in flight: they
\* are neither the tables of before the request nor tables it can end with.
PartlyWritten ==
    /\ inflight.active
    /\ Tables # inflight.before
    /\ Tables \notin Finish(Tables, inflight.todo, inflight.user, inflight.id)

\* The write in flight has created a nested row or changed what is attached
\* to its recipe.
NestedWritten ==
    /\ inflight.active
    /\ \/ attrs # inflight.before.attrs
       \/ /\ inflight.id \in DOMAIN recipes
          /\ inflight.id \in DOMAIN inflight.before.recipes
          /\ recipes[inflight.id] # inflight.before.recipes[inflight.id]

AtomicStep ==
    /\ (PartlyWritten /\ inflight' = inflight /\ request'.action = "list") =>
          Range(response'.data)
             = OwnedIn(inflight.before, request'.resource, request'.kind, request'.user)
    /\ (NestedWritten /\ ~inflight'.active /\ ~Ok(response'.status)) =>
          Tables' = inflight.before

\* C10: a recipe write with nested lists is atomic.  A list served while the
\* stored tables hold part of the write shows the rows of before the request
\* (no other request observes part of the writes), and a write that fails
\* after some rows were created or attached leaves the stored tables as they
\* were before the request.
C10_Atomic == [][AtomicStep]_vars
====
